---- MODULE Spec2Model ----
(***************************************************************************)
(* MidiPlayer (src/js/midi-player.js): the Tone.js playback engine of the  *)
(* piano-roll page.  Times are counted in half-seconds, so the scenario    *)
(* notes (onset 0, 1 s) and (onset 0.5 s, 1 s) are (0,2) and (1,2).         *)
(*                                                                         *)
(* The player object is held in the variables below; St gathers them in a  *)
(* record so that the methods can be written as functions from the object  *)
(* before the call to the object after it, composed the way the code calls *)
(* them (loadTrack -> stop -> _clearScheduled, ...).                       *)
(***************************************************************************)
EXTENDS Integers, Sequences, FiniteSets, TLC

(* ---------------- bounds of the model ---------------- *)

\* how far the transport may run past the end of the piece before a frame
\* callback samples it
MaxOver == 1
\* play() calls suspended at their awaits at one time
MaxPendingPlay == 1
\* loadTrack() calls waiting for their fetch at one time
MaxPendingLoad == 1
\* selectTrack() calls in flight at one time where selections overlap
MaxOverlap == 2
\* the audio clock of the hook runs this far
MaxNow == 3
\* seek targets reach this far outside [0, duration]
SeekMargin == 1
\* notes in one track of a MIDI file handed to _extractNotes
MaxTrackLen == 2
\* the latest onset of such a note
MaxOnset == 1
\* how far from its audio time, either way, a trigger callback may run
MaxJitter == 1

(* ---------------- sessions (decoded MIDI files) ---------------- *)

Note(t, d, s, i) == [time |-> t, duration |-> d, session |-> s, idx |-> i]

Sessions == {1, 2}

\* a third file, which the trigger callbacks are followed on: one note
\* longer than the cap on a trigger, one beginning with it, one later
LongSession == 3

\* what _extractNotes returns for each file: sorted by onset
SessionNotes(s) ==
  IF s = 1 THEN << Note(0, 2, 1, 1), Note(1, 2, 1, 2) >>
  ELSE IF s = 2 THEN << Note(0, 1, 2, 1) >>
  ELSE << Note(0, 18, 3, 1), Note(0, 1, 3, 2), Note(2, 1, 3, 3) >>

SessionDuration(s) == IF s = 1 THEN 3 ELSE IF s = 2 THEN 1 ELSE 18

\* primeMidi.duration of each file
SessionPrimeDuration(s) == IF s = 1 THEN 2 ELSE 1

\* combinedMidi.header.tempos (bpm) and .timeSignatures (beats) of each file
SessionTempos(s) == IF s = 1 THEN << 90 >> ELSE << >>
SessionTimeSigs(s) == IF s = 1 THEN << 3 >> ELSE << >>

\* the longest piece of the model
MaxDuration ==
  IF SessionDuration(1) >= SessionDuration(2)
  THEN SessionDuration(1) ELSE SessionDuration(2)

SeekTimes ==
  {0 - SeekMargin} \cup (0 .. MaxDuration) \cup {MaxDuration + SeekMargin}

\* Math.min(note.duration, 8) seconds, in half-seconds
TriggerCap == 16

(* ---------------- state ---------------- *)

VARIABLES
  notes,          \* this.notes
  duration,       \* this.duration
  primeDuration,  \* this.primeDuration
  bpm,            \* this.bpm
  beatsPerBar,    \* this.beatsPerBar
  isPlaying,      \* this.isPlaying
  isPaused,       \* this.isPaused
  pausedTime,     \* this._pausedTime
  animId,         \* this._animId: the last frame request's id, 0 for null
  frames,         \* frame callbacks the browser has yet to run
  scheduledIds,   \* this.scheduledIds: handles returned by Transport.schedule
  tState,         \* Tone.Transport.state
  tSeconds,       \* Tone.Transport.seconds
  tEvents,        \* events registered on Tone.Transport
  sounding,       \* voices the sampler is sounding
  rollTime,       \* pianoRoll.currentTime, the time the cursor is drawn at
  btnDisabled,    \* $btnPlay.disabled and $btnStop.disabled
  pendingPlay,    \* play() calls suspended at await Tone.start()/loaded()
  pendingLoad,    \* loadTrack() calls suspended at await Promise.all
  currentTrackId, \* the page's currentTrackId: the track selected last, 0 for null
  lastOp,         \* the handler that ran last
  call,           \* what that handler was called with
  trace,          \* the calls and notifications that handler made, in order
  pre             \* the player object as that handler found it

VARIABLES
  roll,           \* the PianoRoll's layout: notes, duration, currentTime and
                  \* onSeek, displayWidth, displayHeight, pxPerSec and scrollX
  rollOp,         \* the handler of the roll that ran last
  rollArg,        \* its argument
  rollPre,        \* the layout it started from
  forwarded,      \* the times it passed to onSeek
  drawn           \* the notes its last render drew, in drawing order

playerVars == << notes, duration, primeDuration, bpm, beatsPerBar,
                 isPlaying, isPaused, pausedTime, animId, frames,
                 scheduledIds, tState, tSeconds, tEvents, sounding,
                 rollTime, btnDisabled,
                 pendingPlay, pendingLoad, currentTrackId,
                 lastOp, call, trace, pre >>

rollVars == << roll, rollOp, rollArg, rollPre, forwarded, drawn >>

VARIABLES
  midi,           \* the decoded file last handed to _extractNotes
  midiPrime,      \* and the primeDuration handed over with it
  extracted       \* what _extractNotes returned for it

extractVars == << midi, midiPrime, extracted >>

VARIABLES
  samplerCalls,   \* the calls of sampler.triggerAttackRelease made so far
  audioStart,     \* the audio time at which the transport was started
  startOffset,    \* the transport position it was started at
  escaped         \* whether an error has left a trigger callback

triggerVars == << samplerCalls, audioStart, startOffset, escaped >>

VARIABLES
  hook,           \* the useMidiPlayer hook: its state and its refs
  hookNow,        \* Tone.now(), the audio clock the hook reads
  hookOp,         \* the callback of the hook that ran last
  hookArg,        \* its argument
  hookAt,         \* the audio clock when it ran
  hookPre         \* the hook it started from

hookVars == << hook, hookNow, hookOp, hookArg, hookAt, hookPre >>

vars == << playerVars, rollVars, extractVars, triggerVars, hookVars >>

\* the player object together with the transport and sampler it drives and
\* the parts of the page its callbacks write
St == [ notes |-> notes, duration |-> duration,
        primeDuration |-> primeDuration, bpm |-> bpm,
        beatsPerBar |-> beatsPerBar,
        rollTime |-> rollTime, btnDisabled |-> btnDisabled,
        isPlaying |-> isPlaying,
        isPaused |-> isPaused, pausedTime |-> pausedTime, animId |-> animId,
        frames |-> frames, scheduledIds |-> scheduledIds, tState |-> tState,
        tSeconds |-> tSeconds, tEvents |-> tEvents, sounding |-> sounding,
        trace |-> << >> ]

Ev(name, arg) == [ev |-> name, arg |-> arg]

Emit(m, name, arg) == [m EXCEPT !.trace = Append(@, Ev(name, arg))]

Min(a, b) == IF a <= b THEN a ELSE b
Max(a, b) == IF a >= b THEN a ELSE b

(* ---------------- Tone.Transport and the sampler, as the code uses them *)

\* Tone.Transport.stop(): the position returns to 0
TransportStop(m) ==
  Emit([m EXCEPT !.tState = "stopped", !.tSeconds = 0], "Transport.stop", 0)

\* Tone.Transport.pause(): the position is kept
TransportPause(m) ==
  Emit([m EXCEPT !.tState = "paused"], "Transport.pause", 0)

\* Tone.Transport.start('+0.02', offset)
TransportStart(m, offset) ==
  Emit([m EXCEPT !.tState = "started", !.tSeconds = offset],
       "Transport.start", offset)

\* Tone.Transport.clear(id)
TransportClear(m, id) ==
  [m EXCEPT !.tEvents = {e \in @ : e.id # id}]

\* Tone.Transport.cancel(): every event from position 0 on
TransportCancel(m) ==
  Emit([m EXCEPT !.tEvents = {}], "Transport.cancel", 0)

\* the handle Tone.Transport.schedule returns: one no live event carries
FreshId(m) ==
  CHOOSE n \in 0 .. (Cardinality(m.tEvents) + Len(m.scheduledIds)) :
    /\ \A e \in m.tEvents : e.id # n
    /\ \A k \in 1 .. Len(m.scheduledIds) : m.scheduledIds[k] # n

\* sampler.releaseAll()
ReleaseAll(m) == Emit([m EXCEPT !.sounding = {}], "releaseAll", 0)

(* ---------------- MidiPlayer methods ---------------- *)

RECURSIVE ClearEach(_, _)
ClearEach(m, ids) ==
  IF ids = << >> THEN m
  ELSE ClearEach(TransportClear(m, Head(ids)), Tail(ids))

\* _clearScheduled(), were it to forget the handles without revoking them
ClearScheduled_ForgetOnly(m) == [m EXCEPT !.scheduledIds = << >>]

\* _clearScheduled()
ClearScheduled(m) ==
  TransportCancel(
    [ClearEach(m, m.scheduledIds) EXCEPT !.scheduledIds = << >>])

\* _scheduleFrom's loop body, were it to skip every note that has begun
ScheduleNote_SkipStarted(m, note, fromTime) ==
  IF note.time < fromTime THEN m
  ELSE LET id == FreshId(m) IN
       [m EXCEPT
          !.tEvents = @ \cup {[id |-> id, time |-> note.time,
                               note |-> note.idx, session |-> note.session,
                               dur |-> Min(note.duration, TriggerCap)]},
          !.scheduledIds = Append(@, id)]

\* _scheduleFrom's loop body, were it to keep a note that ends at fromTime
ScheduleNote_SkipEnding(m, note, fromTime) ==
  IF note.time + note.duration < fromTime THEN m
  ELSE LET id == FreshId(m) IN
       [m EXCEPT
          !.tEvents = @ \cup {[id |-> id, time |-> note.time,
                               note |-> note.idx, session |-> note.session,
                               dur |-> Min(note.duration, TriggerCap)]},
          !.scheduledIds = Append(@, id)]

\* _scheduleFrom's loop body, were the trigger to pass the note's full length
ScheduleNote_NoCap(m, note, fromTime) ==
  IF note.time + note.duration <= fromTime THEN m
  ELSE LET id == FreshId(m) IN
       [m EXCEPT
          !.tEvents = @ \cup {[id |-> id, time |-> note.time,
                               note |-> note.idx, session |-> note.session,
                               dur |-> note.duration]},
          !.scheduledIds = Append(@, id)]

\* the body of the for loop of _scheduleFrom for one note
ScheduleNote(m, note, fromTime) ==
  IF note.time + note.duration <= fromTime THEN m
  ELSE LET id == FreshId(m) IN
       [m EXCEPT
          !.tEvents = @ \cup {[id |-> id, time |-> note.time,
                               note |-> note.idx, session |-> note.session,
                               dur |-> Min(note.duration, TriggerCap)]},
          !.scheduledIds = Append(@, id)]

RECURSIVE ScheduleEach(_, _, _)
ScheduleEach(m, ns, fromTime) ==
  IF ns = << >> THEN m
  ELSE ScheduleEach(ScheduleNote(m, Head(ns), fromTime), Tail(ns), fromTime)

\* _scheduleFrom(fromTime), were it to leave out _clearScheduled()
ScheduleFrom_NoClear(m, fromTime) ==
  Emit(ScheduleEach(m, m.notes, fromTime), "scheduleFrom", fromTime)

\* _scheduleFrom(fromTime)
ScheduleFrom(m, fromTime) ==
  Emit(ScheduleEach(ClearScheduled(m), m.notes, fromTime),
       "scheduleFrom", fromTime)

\* _stopTicker()
StopTicker(m) ==
  IF m.animId # 0
  THEN Emit([m EXCEPT !.frames = @ \ {m.animId}, !.animId = 0],
            "cancelAnimationFrame", 0)
  ELSE m

\* this._animId = requestAnimationFrame(tick)
RequestFrame(m) ==
  LET id == CHOOSE n \in 1 .. (Cardinality(m.frames) + 1) : n \notin m.frames
  IN Emit([m EXCEPT !.frames = @ \cup {id}, !.animId = id],
          "requestAnimationFrame", 0)

\* _startTicker(), were it to leave out _stopTicker()
StartTicker_NoStop(m) == RequestFrame(m)

\* _startTicker()
StartTicker(m) == RequestFrame(StopTicker(m))

\* getCurrentTime(), were it to read the transport in every state
GetCurrentTime_AlwaysLive(m) == Min(m.tSeconds, m.duration)

\* getCurrentTime()
GetCurrentTime(m) ==
  IF m.isPlaying THEN Min(m.tSeconds, m.duration) ELSE m.pausedTime

BoolArg(b) == IF b THEN 1 ELSE 0

OnPlayStateChange(m, b) == Emit(m, "onPlayStateChange", BoolArg(b))

\* pianoRoll.updateCursor(time)
UpdateCursor(m, t) == Emit([m EXCEPT !.rollTime = t], "updateCursor", t)

\* player.onTimeUpdate, wired to the page's onTimeUpdate, which moves the
\* cursor of the piano roll
OnTimeUpdate(m, t) == UpdateCursor(Emit(m, "onTimeUpdate", t), t)

\* stop(), were it to leave _pausedTime alone
PlayerStop_KeepPausedTime(m) ==
  LET m1 == ReleaseAll(ClearScheduled(TransportStop(Emit(m, "stop", 0))))
      m2 == [m1 EXCEPT !.isPlaying = FALSE, !.isPaused = FALSE]
  IN StopTicker(OnTimeUpdate(OnPlayStateChange(m2, FALSE), 0))

\* stop(), were it to silence the sampler before revoking the triggers
PlayerStop_ReleaseFirst(m) ==
  LET m1 == ClearScheduled(ReleaseAll(TransportStop(Emit(m, "stop", 0))))
      m2 == [m1 EXCEPT !.isPlaying = FALSE, !.isPaused = FALSE,
                       !.pausedTime = 0]
  IN StopTicker(OnTimeUpdate(OnPlayStateChange(m2, FALSE), 0))

\* stop(), were it to leave the registered triggers alone
PlayerStop_KeepsTriggers(m) ==
  LET m1 == ReleaseAll(TransportStop(Emit(m, "stop", 0)))
      m2 == [m1 EXCEPT !.isPlaying = FALSE, !.isPaused = FALSE,
                       !.pausedTime = 0]
  IN StopTicker(OnTimeUpdate(OnPlayStateChange(m2, FALSE), 0))

\* stop()
PlayerStop(m) ==
  LET m1 == ReleaseAll(ClearScheduled(TransportStop(Emit(m, "stop", 0))))
      m2 == [m1 EXCEPT !.isPlaying = FALSE, !.isPaused = FALSE,
                       !.pausedTime = 0]
  IN StopTicker(OnTimeUpdate(OnPlayStateChange(m2, FALSE), 0))

\* pause(), were it to lack its isPlaying guard
PlayerPause_NoGuard(m) ==
  LET m1 == [m EXCEPT !.pausedTime = m.tSeconds]
      m2 == ReleaseAll(TransportPause(m1))
      m3 == [m2 EXCEPT !.isPlaying = FALSE, !.isPaused = TRUE]
  IN StopTicker(OnPlayStateChange(m3, FALSE))

\* pause(), were it to leave out the notification
PlayerPause_NoNotify(m) ==
  IF ~m.isPlaying THEN m
  ELSE LET m1 == [m EXCEPT !.pausedTime = m.tSeconds]
           m2 == ReleaseAll(TransportPause(m1))
           m3 == [m2 EXCEPT !.isPlaying = FALSE, !.isPaused = TRUE]
       IN StopTicker(m3)

\* pause(), were it to leave out sampler.releaseAll()
PlayerPause_NoRelease(m) ==
  IF ~m.isPlaying THEN m
  ELSE LET m1 == [m EXCEPT !.pausedTime = m.tSeconds]
           m2 == TransportPause(m1)
           m3 == [m2 EXCEPT !.isPlaying = FALSE, !.isPaused = TRUE]
       IN StopTicker(OnPlayStateChange(m3, FALSE))

\* pause()
PlayerPause(m) ==
  IF ~m.isPlaying THEN m
  ELSE LET m1 == [m EXCEPT !.pausedTime = m.tSeconds]
           m2 == ReleaseAll(TransportPause(m1))
           m3 == [m2 EXCEPT !.isPlaying = FALSE, !.isPaused = TRUE]
       IN StopTicker(OnPlayStateChange(m3, FALSE))

\* play(), were it to lack its guard on an empty note list
PlayerPlayReturnsEarly_Never(m) == FALSE

\* the first line of play(): it returns at once when no notes are loaded
PlayerPlayReturnsEarly(m) == Len(m.notes) = 0

\* play(), were it to start from 0 always
PlayerPlayBody_FromZero(m) ==
  LET startFrom == 0
      m1 == TransportStart(ScheduleFrom(TransportStop(m), startFrom),
                           startFrom)
      m2 == [m1 EXCEPT !.isPlaying = TRUE, !.isPaused = FALSE]
  IN StartTicker(OnPlayStateChange(m2, TRUE))

\* play(), from the line after its awaits
PlayerPlayBody(m) ==
  LET startFrom == IF m.isPaused THEN m.pausedTime ELSE 0
      m1 == TransportStart(ScheduleFrom(TransportStop(m), startFrom),
                           startFrom)
      m2 == [m1 EXCEPT !.isPlaying = TRUE, !.isPaused = FALSE]
  IN StartTicker(OnPlayStateChange(m2, TRUE))

\* seek(time), were it to clamp from above only
PlayerSeek_NoLowerClamp(m, time0) ==
  LET time == Min(time0, m.duration)
      wasPlaying == m.isPlaying
      m1 == ScheduleFrom(ReleaseAll(TransportStop(m)), time)
  IN IF wasPlaying
     THEN StartTicker([TransportStart(m1, time) EXCEPT
                         !.isPlaying = TRUE, !.isPaused = FALSE])
     ELSE OnTimeUpdate([m1 EXCEPT !.pausedTime = time, !.isPaused = TRUE],
                       time)

\* seek(time), were its not-playing branch to leave out onTimeUpdate
PlayerSeek_NoTimeUpdate(m, time0) ==
  LET time == Max(0, Min(time0, m.duration))
      wasPlaying == m.isPlaying
      m1 == ScheduleFrom(ReleaseAll(TransportStop(m)), time)
  IN IF wasPlaying
     THEN StartTicker([TransportStart(m1, time) EXCEPT
                         !.isPlaying = TRUE, !.isPaused = FALSE])
     ELSE [m1 EXCEPT !.pausedTime = time, !.isPaused = TRUE]

\* seek(time), were its playing branch to leave out Transport.start
PlayerSeek_NoRestart(m, time0) ==
  LET time == Max(0, Min(time0, m.duration))
      wasPlaying == m.isPlaying
      m1 == ScheduleFrom(ReleaseAll(TransportStop(m)), time)
  IN IF wasPlaying
     THEN StartTicker([m1 EXCEPT !.isPlaying = TRUE, !.isPaused = FALSE])
     ELSE OnTimeUpdate([m1 EXCEPT !.pausedTime = time, !.isPaused = TRUE],
                       time)

\* seek(time), were its not-playing branch to schedule nothing
PlayerSeek_NoSchedule(m, time0) ==
  LET time == Max(0, Min(time0, m.duration))
      wasPlaying == m.isPlaying
      m1 == ReleaseAll(TransportStop(m))
  IN IF wasPlaying
     THEN StartTicker([TransportStart(ScheduleFrom(m1, time), time) EXCEPT
                         !.isPlaying = TRUE, !.isPaused = FALSE])
     ELSE OnTimeUpdate([m1 EXCEPT !.pausedTime = time, !.isPaused = TRUE],
                       time)

\* seek(time)
PlayerSeek(m, time0) ==
  LET time == Max(0, Min(time0, m.duration))
      wasPlaying == m.isPlaying
      m1 == ScheduleFrom(ReleaseAll(TransportStop(m)), time)
  IN IF wasPlaying
     THEN StartTicker([TransportStart(m1, time) EXCEPT
                         !.isPlaying = TRUE, !.isPaused = FALSE])
     ELSE OnTimeUpdate([m1 EXCEPT !.pausedTime = time, !.isPaused = TRUE],
                       time)

\* the frame callback, were it to lack the return after stop()
PlayerTick_Rearm(m) ==
  IF ~m.isPlaying THEN m
  ELSE LET t == GetCurrentTime(m)
           m1 == OnTimeUpdate(m, t)
       IN IF t >= m1.duration THEN RequestFrame(PlayerStop(m1))
          ELSE RequestFrame(m1)

\* the frame callback tick of _startTicker
PlayerTick(m) ==
  IF ~m.isPlaying THEN m
  ELSE LET t == GetCurrentTime(m)
           m1 == OnTimeUpdate(m, t)
       IN IF t >= m1.duration THEN PlayerStop(m1) ELSE RequestFrame(m1)

\* loadTrack up to its await: onLoadStart, stop()
PlayerLoadStart(m) == PlayerStop(Emit(m, "onLoadStart", 0))

\* loadTrack after a successful fetch
PlayerLoadInstall(m, s) ==
  Emit([m EXCEPT !.primeDuration = SessionPrimeDuration(s),
                 !.notes = SessionNotes(s),
                 !.duration = SessionDuration(s),
                 !.bpm = IF Len(SessionTempos(s)) > 0
                         THEN SessionTempos(s)[1] ELSE 120,
                 !.beatsPerBar = IF Len(SessionTimeSigs(s)) > 0
                                 THEN SessionTimeSigs(s)[1] ELSE 4],
       "onLoadEnd", 0)

\* loadTrack's catch, were it to drop the session it could not replace
PlayerLoadFail_DropsSession(m) ==
  Emit(Emit([m EXCEPT !.notes = << >>, !.duration = 0], "onLoadEnd", 0),
       "throw", 0)

\* loadTrack after a failed fetch: the catch block
PlayerLoadFail(m) == Emit(Emit(m, "onLoadEnd", 0), "throw", 0)

\* selectTrack up to its await: the buttons are enabled, loadTrack is called
SelectTrackStart(m) == PlayerLoadStart([m EXCEPT !.btnDisabled = FALSE])

\* pianoRoll.setNotes(notes, duration), as far as the cursor goes
RollSetNotes(m) == Emit([m EXCEPT !.rollTime = 0], "setNotes", 0)

\* selectTrack after loadTrack has resolved, up to its call of play()
SelectTrackLoaded(m, s) == RollSetNotes(PlayerLoadInstall(m, s))

\* selectTrack's catch block after loadTrack has rejected
SelectTrackFailed(m) == Emit(PlayerLoadFail(m), "showEmpty", 0)

\* the audio clock moves the transport on by one step: the events at the
\* position it leaves fire, and voices whose time is up fall silent
TransportAdvance(m) ==
  LET fired == {e \in m.tEvents : e.time = m.tSeconds}
      voices == m.sounding \cup
                {[note |-> e.note, session |-> e.session, left |-> e.dur]
                   : e \in fired}
  IN [m EXCEPT
        !.tSeconds = @ + 1,
        !.sounding = {[v EXCEPT !.left = @ - 1] : v \in {w \in voices : w.left > 1}}]

(* ---------------- the piano roll's layout ---------------- *)

\* The roll computes in floating point.  Its numbers are modelled as exact
\* fractions n/d with d > 0, kept in lowest terms.
RECURSIVE GCD(_, _)
GCD(a, b) == IF b = 0 THEN a ELSE GCD(b, a % b)

Abs(a) == IF a < 0 THEN 0 - a ELSE a

Frac(n, d) ==
  LET g == GCD(Abs(n), d)
  IN IF n = 0 THEN [n |-> 0, d |-> 1] ELSE [n |-> n \div g, d |-> d \div g]

FInt(k) == [n |-> k, d |-> 1]
FAdd(a, b) == Frac(a.n * b.d + b.n * a.d, a.d * b.d)
FSub(a, b) == Frac(a.n * b.d - b.n * a.d, a.d * b.d)
FMul(a, b) == Frac(a.n * b.n, a.d * b.d)
\* a / b for b > 0
FDiv(a, b) == Frac(a.n * b.d, a.d * b.n)
FLe(a, b) == a.n * b.d <= b.n * a.d
FLt(a, b) == a.n * b.d < b.n * a.d
FMin(a, b) == IF FLe(a, b) THEN a ELSE b
FMax(a, b) == IF FLe(a, b) THEN b ELSE a

\* this.keyboardWidth
keyboardWidth == 40

\* the zoom of an empty roll
DefaultPxPerSec == 80

\* the seconds a comfortable zoom shows, and the cap on that zoom
ComfortableSeconds == 10
MaxComfortablePxPerSec == 140

\* the durations (in seconds) of the pieces the roll is given, the widths
\* (in CSS pixels) its wrapper takes, the cursor times it is sent, and the
\* x offsets of the clicks on its canvas
RollDurations == {0, 3, 20, 45}
RollWidths == {0, 440, 1640}
RollHeight == 200
RollCursorTimes == {0, 1, 7, 30}
RollClickXs == {0, 39, 40, 41, 140, 440, 1000, 1640}

\* _computeZoom(), were it to cap the zoom it settles on
ComputeZoom_CapsResult(r) ==
  LET viewW == r.displayWidth - keyboardWidth
      fitAll == Frac(viewW, r.duration)
      comfortable == Frac(viewW, ComfortableSeconds)
  IN IF r.duration <= 0 \/ viewW <= 0
     THEN [r EXCEPT !.pxPerSec = FInt(DefaultPxPerSec)]
     ELSE [r EXCEPT !.pxPerSec =
             FMin(FMax(fitAll, comfortable), FInt(MaxComfortablePxPerSec))]

\* _computeZoom()
ComputeZoom(r) ==
  LET viewW == r.displayWidth - keyboardWidth
      fitAll == Frac(viewW, r.duration)
      comfortable == Frac(viewW, ComfortableSeconds)
  IN IF r.duration <= 0 \/ viewW <= 0
     THEN [r EXCEPT !.pxPerSec = FInt(DefaultPxPerSec)]
     ELSE [r EXCEPT !.pxPerSec =
             FMax(fitAll, FMin(comfortable, FInt(MaxComfortablePxPerSec)))]

\* _autoScroll(), were it to leave the scroll offset unclamped at the end
AutoScroll_NoEndClamp(r) ==
  LET viewW == FInt(r.displayWidth - keyboardWidth)
      totalW == FMul(FInt(r.duration), r.pxPerSec)
      cursorPx == FMul(FInt(r.currentTime), r.pxPerSec)
      target == FSub(cursorPx, FMul(viewW, Frac(3, 10)))
  IN IF FLe(totalW, viewW)
     THEN [r EXCEPT !.scrollX = FInt(0)]
     ELSE [r EXCEPT !.scrollX = FMax(FInt(0), target)]

\* _autoScroll()
AutoScroll(r) ==
  LET viewW == FInt(r.displayWidth - keyboardWidth)
      totalW == FMul(FInt(r.duration), r.pxPerSec)
      cursorPx == FMul(FInt(r.currentTime), r.pxPerSec)
      target == FSub(cursorPx, FMul(viewW, Frac(3, 10)))
  IN IF FLe(totalW, viewW)
     THEN [r EXCEPT !.scrollX = FInt(0)]
     ELSE [r EXCEPT !.scrollX = FMax(FInt(0), FMin(target, FSub(totalW, viewW)))]

\* _resize(), the wrapper being w pixels wide: a wrapper that is not laid
\* out has neither width nor height
RollResize(r, w) ==
  ComputeZoom([r EXCEPT !.displayWidth = w,
                        !.displayHeight = IF w = 0 THEN 0 ELSE RollHeight])

\* a note as the roll is given it: onset and length in seconds, pitch, and
\* the part of the piece it belongs to
RollNote(t, d, p, src) == [time |-> t, duration |-> d, midi |-> p, source |-> src]

\* the notes of the piece of duration d handed to setNotes, sorted by onset
RollPiece(d) ==
  IF d = 3 THEN << RollNote(0, 1, 60, "original"),
                   RollNote(1, 2, 62, "continuation") >>
  ELSE IF d = 20 THEN << RollNote(0, 2, 60, "original"),
                         RollNote(3, 1, 62, "original"),
                         RollNote(10, 5, 64, "continuation"),
                         RollNote(19, 1, 65, "continuation") >>
  ELSE IF d = 45 THEN << RollNote(0, 2, 60, "original"),
                         RollNote(1, 3, 62, "original"),
                         RollNote(4, 3, 64, "original"),
                         RollNote(14, 0, 65, "original"),
                         RollNote(15, 2, 67, "continuation"),
                         RollNote(20, 10, 69, "continuation"),
                         RollNote(44, 1, 71, "continuation") >>
  ELSE << >>

\* setNotes(notes, duration, ...), as far as the layout goes
RollLayoutNotes(r, d) ==
  [ComputeZoom([r EXCEPT !.notes = RollPiece(d), !.duration = d]) EXCEPT
     !.scrollX = FInt(0), !.currentTime = 0]

\* updateCursor(time), as far as the layout goes
RollLayoutCursor(r, t) == AutoScroll([r EXCEPT !.currentTime = t])

\* the notes one pass of _drawNotes over the notes of one source draws,
\* were it to cull the notes that only touch the window's left edge as well
DrawPass_CullsTouching(r, source) ==
  LET viewW == FInt(r.displayWidth - keyboardWidth)
      viewStartTime == FDiv(r.scrollX, r.pxPerSec)
      viewEndTime == FDiv(FAdd(r.scrollX, viewW), r.pxPerSec)
      Kept(note) ==
        /\ note.source = source
        /\ ~FLe(FInt(note.time + note.duration), viewStartTime)
        /\ ~FLt(viewEndTime, FInt(note.time))
  IN SelectSeq(r.notes, Kept)

\* the notes one pass of _drawNotes over the notes of one source draws
DrawPass(r, source) ==
  LET viewW == FInt(r.displayWidth - keyboardWidth)
      viewStartTime == FDiv(r.scrollX, r.pxPerSec)
      viewEndTime == FDiv(FAdd(r.scrollX, viewW), r.pxPerSec)
      Kept(note) ==
        /\ note.source = source
        /\ ~FLt(FInt(note.time + note.duration), viewStartTime)
        /\ ~FLt(viewEndTime, FInt(note.time))
  IN SelectSeq(r.notes, Kept)

\* _drawNotes: the originals are drawn first, the continuation over them
DrawNotes(r) == DrawPass(r, "original") \o DrawPass(r, "continuation")

\* render(), as far as the notes go: nothing is drawn on a canvas without a
\* size, and only the background for a roll without notes or duration
Render(r) ==
  IF r.displayWidth = 0 \/ r.displayHeight = 0 THEN << >>
  ELSE IF Len(r.notes) = 0 \/ r.duration = 0 THEN << >>
  ELSE DrawNotes(r)

\* the x at which _drawCursor draws the time f
CursorX(r, f) == FSub(FAdd(FInt(keyboardWidth), FMul(f, r.pxPerSec)), r.scrollX)

\* the click handler, were it to leave the scroll offset out
ClickForwards_NoScroll(r, cssX) ==
  LET noteAreaX == cssX - keyboardWidth
      time == FDiv(FInt(noteAreaX), r.pxPerSec)
  IN IF r.duration = 0 \/ ~r.onSeek THEN << >>
     ELSE IF cssX < keyboardWidth THEN << >>
     ELSE << FMax(FInt(0), FMin(time, FInt(r.duration))) >>

\* the click handler, were it to leave the key strip's width in
ClickForwards_NoStrip(r, cssX) ==
  LET time == FDiv(FAdd(FInt(cssX), r.scrollX), r.pxPerSec)
  IN IF r.duration = 0 \/ ~r.onSeek THEN << >>
     ELSE IF cssX < keyboardWidth THEN << >>
     ELSE << FMax(FInt(0), FMin(time, FInt(r.duration))) >>

\* the click handler of the canvas: the times it passes to onSeek for a click
\* cssX pixels right of the canvas's left edge
ClickForwards(r, cssX) ==
  LET noteAreaX == cssX - keyboardWidth
      time == FDiv(FAdd(FInt(noteAreaX), r.scrollX), r.pxPerSec)
  IN IF r.duration = 0 \/ ~r.onSeek THEN << >>
     ELSE IF cssX < keyboardWidth THEN << >>
     ELSE << FMax(FInt(0), FMin(time, FInt(r.duration))) >>

\* the roll as its constructor leaves it on a page 440 pixels wide
RollInit ==
  /\ roll = [notes |-> << >>, duration |-> 0, currentTime |-> 0,
             onSeek |-> FALSE, displayWidth |-> 440,
             displayHeight |-> RollHeight, pxPerSec |-> FInt(DefaultPxPerSec),
             scrollX |-> FInt(0)]
  /\ rollOp = "init"
  /\ rollArg = 0
  /\ rollPre = roll
  /\ forwarded = << >>
  /\ drawn = << >>

\* the handler named op, given a, turned the layout into r and passed fw on
RollBecomes(op, a, r, fw) ==
  /\ roll' = r
  /\ rollOp' = op
  /\ rollArg' = a
  /\ rollPre' = roll
  /\ forwarded' = fw
  \* setNotes, updateCursor and _resize end with a call of render()
  /\ drawn' = IF op \in {"setNotes", "updateCursor", "resize"}
              THEN Render(r) ELSE drawn
  /\ UNCHANGED << playerVars, extractVars, triggerVars, hookVars >>

(* ---------------- the useMidiPlayer hook ---------------- *)

\* the durations of the files the hook is given and the times it is sought to
HookDurations == {2, 3}
HookSeekTimes == {0 - 1, 1, 2, 4}

\* the hook after its first render
HookConstructed ==
  [midiData |-> FALSE, isPlaying |-> FALSE, currentTime |-> 0, duration |-> 0,
   startTime |-> 0, pausedAt |-> 0, playPending |-> FALSE]

\* the elapsed time updatePlayback computes from the refs at the time now
HookElapsed(h, now) == now - h.startTime + h.pausedAt

\* updatePlayback() run at now, as far as the times go; seesPlaying is the
\* isPlaying of the render the callback was made in
HookUpdatePlayback(h, now, seesPlaying) ==
  IF ~seesPlaying \/ ~h.midiData THEN h
  ELSE IF HookElapsed(h, now) >= h.duration
       THEN [h EXCEPT !.isPlaying = FALSE, !.currentTime = h.duration]
       ELSE [h EXCEPT !.currentTime = HookElapsed(h, now)]

\* the first line of play()
HookPlayReturnsEarly(h) == ~h.midiData \/ h.isPlaying

\* play() after await Tone.start(): the updatePlayback it calls is the one
\* of the render play was made in, which saw isPlaying = false
HookPlayBody(h, now) ==
  HookUpdatePlayback([h EXCEPT !.isPlaying = TRUE, !.startTime = now,
                               !.playPending = FALSE],
                     now, FALSE)

\* pause()
HookPause(h) ==
  IF ~h.isPlaying THEN h
  ELSE [h EXCEPT !.isPlaying = FALSE, !.pausedAt = h.currentTime]

\* stop()
HookStop(h) ==
  [h EXCEPT !.isPlaying = FALSE, !.currentTime = 0, !.pausedAt = 0]

\* seek(time) at now
HookSeek(h, now, time) ==
  LET clampedTime == Max(0, Min(h.duration, time))
      h1 == [h EXCEPT !.currentTime = clampedTime, !.pausedAt = clampedTime]
  IN IF h.isPlaying THEN [h1 EXCEPT !.startTime = now - clampedTime] ELSE h1

\* loadFile(file) for a file whose notes end at d
HookLoadFile(h, d) ==
  [h EXCEPT !.midiData = TRUE, !.duration = d, !.currentTime = 0,
            !.isPlaying = FALSE, !.pausedAt = 0]

HookInit ==
  /\ hook = HookConstructed
  /\ hookNow = 0
  /\ hookOp = "init"
  /\ hookArg = 0
  /\ hookAt = 0
  /\ hookPre = hook

\* the callback named op, given a, turned the hook into h
HookBecomes(op, a, h) ==
  /\ hook' = h
  /\ hookOp' = op
  /\ hookArg' = a
  /\ hookAt' = hookNow
  /\ hookPre' = hook
  /\ UNCHANGED << playerVars, rollVars, extractVars, triggerVars >>

(* ---------------- _extractNotes ---------------- *)

\* the notes of one track as the decoder lists them: onset and duration
RawNote(t, d) == [time |-> t, duration |-> d]

\* the tracks a decoded file may have, and the files of two tracks
TrackLists ==
  UNION {[1 .. n -> {RawNote(t, 1) : t \in 0 .. MaxOnset}] : n \in 0 .. MaxTrackLen}

MidiFiles == {<< a, b >> : a \in TrackLists, b \in TrackLists}

\* the record _extractNotes pushes for the note at place k of track trackIdx;
\* ord tells the order of the pushes
Pushed(note, primeDur, trackIdx, ord) ==
  [time |-> note.time, duration |-> note.duration,
   source |-> IF note.time < primeDur THEN "original" ELSE "continuation",
   trackIdx |-> trackIdx, ord |-> ord]

\* the two nested forEach loops: every note of every track, in track order
RECURSIVE PushTracks(_, _, _, _)
PushTracks(tracks, primeDur, trackIdx, acc) ==
  IF trackIdx > Len(tracks) THEN acc
  ELSE LET track == tracks[trackIdx]
           more == [k \in 1 .. Len(track) |->
                      Pushed(track[k], primeDur, trackIdx, Len(acc) + k)]
       IN PushTracks(tracks, primeDur, trackIdx + 1, acc \o more)

\* Array.prototype.sort places x, were it to put it before its equals
RECURSIVE SortInsert_BeforeEquals(_, _)
SortInsert_BeforeEquals(sorted, x) ==
  IF sorted = << >> THEN << x >>
  ELSE IF x.time - Head(sorted).time <= 0 THEN << x >> \o sorted
  ELSE << Head(sorted) >> \o SortInsert_BeforeEquals(Tail(sorted), x)

\* Array.prototype.sort with the comparator a.time - b.time is stable: x goes
\* behind every element the comparator does not put after it
RECURSIVE SortInsert(_, _)
SortInsert(sorted, x) ==
  IF sorted = << >> THEN << x >>
  ELSE IF x.time - Head(sorted).time < 0 THEN << x >> \o sorted
  ELSE << Head(sorted) >> \o SortInsert(Tail(sorted), x)

RECURSIVE SortByTime(_, _)
SortByTime(list, acc) ==
  IF list = << >> THEN acc
  ELSE SortByTime(Tail(list), SortInsert(acc, Head(list)))

\* _extractNotes(midi, primeDuration)
ExtractNotes(file, primeDur) ==
  SortByTime(PushTracks(file, primeDur, 1, << >>), << >>)

ExtractInit ==
  /\ midi = << >>
  /\ midiPrime = 0
  /\ extracted = << >>

(* ---------------- the trigger callbacks ---------------- *)

\* the sessions, start positions and audio times the callbacks are followed
\* on, and the distances between a callback's run and its audio time
TriggerSessions == {1, LongSession}
TriggerFromTimes == {0, 1}
AudioStarts == {3, 10}
Jitters == (0 - MaxJitter) .. MaxJitter

\* the callback given to Transport.schedule, were it to time the note by the
\* clock it reads when it runs
TriggerCallback_UsesNow(e, audioTime, now, throws) ==
  [note |-> e.note, session |-> e.session, dur |-> e.dur, at |-> now,
   threw |-> throws, escapes |-> FALSE]

\* the callback given to Transport.schedule, were it to lack its try/catch
TriggerCallback_NoCatch(e, audioTime, now, throws) ==
  [note |-> e.note, session |-> e.session, dur |-> e.dur, at |-> audioTime,
   threw |-> throws, escapes |-> throws]

\* the callback given to Transport.schedule for the event e, run at the
\* clock reading now with the audio time audioTime: the one call of
\* sampler.triggerAttackRelease it makes, which either throws or starts a
\* voice, and whether an error leaves the callback
TriggerCallback(e, audioTime, now, throws) ==
  [note |-> e.note, session |-> e.session, dur |-> e.dur, at |-> audioTime,
   threw |-> throws, escapes |-> FALSE]

\* the transport moves on by one step and runs the callbacks of the events
\* at the position it leaves, each with the audio time of that position,
\* jitter away from the clock; the sampler throws for those in failing
TransportDispatch(m, audioZero, jitter, failing) ==
  LET fired == {e \in m.tEvents : e.time = m.tSeconds}
      calls == {TriggerCallback(e, audioZero + e.time,
                                audioZero + e.time + jitter, e \in failing)
                  : e \in fired}
      voices == m.sounding \cup
                {[note |-> c.note, session |-> c.session, left |-> c.dur]
                   : c \in {d \in calls : ~d.threw}}
  IN [m |-> [m EXCEPT
               !.tSeconds = @ + 1,
               !.sounding = {[v EXCEPT !.left = @ - 1]
                               : v \in {w \in voices : w.left > 1}}],
      calls |-> calls]

TriggerInit ==
  /\ samplerCalls = {}
  /\ audioStart = 0
  /\ startOffset = 0
  /\ escaped = FALSE

(* ---------------- the state machine ---------------- *)

\* the handler named op turned the object St into m
NoCall == [t |-> 0, ctx |-> "other"]

BecomesPlayer(op, c, m) ==
  /\ notes' = m.notes
  /\ duration' = m.duration
  /\ primeDuration' = m.primeDuration
  /\ bpm' = m.bpm
  /\ beatsPerBar' = m.beatsPerBar
  /\ rollTime' = m.rollTime
  /\ btnDisabled' = m.btnDisabled
  /\ isPlaying' = m.isPlaying
  /\ isPaused' = m.isPaused
  /\ pausedTime' = m.pausedTime
  /\ animId' = m.animId
  /\ frames' = m.frames
  /\ scheduledIds' = m.scheduledIds
  /\ tState' = m.tState
  /\ tSeconds' = m.tSeconds
  /\ tEvents' = m.tEvents
  /\ sounding' = m.sounding
  /\ trace' = m.trace
  /\ lastOp' = op
  /\ call' = c
  /\ pre' = St

Becomes(op, c, m) ==
  /\ BecomesPlayer(op, c, m)
  /\ UNCHANGED << rollVars, extractVars, triggerVars, hookVars >>

\* the player, transport and page as the constructors leave them
Constructed ==
  [ notes |-> << >>, duration |-> 0, primeDuration |-> 0, bpm |-> 120,
    beatsPerBar |-> 4, rollTime |-> 0, btnDisabled |-> TRUE,
    isPlaying |-> FALSE, isPaused |-> FALSE, pausedTime |-> 0, animId |-> 0,
    frames |-> {}, scheduledIds |-> << >>, tState |-> "stopped",
    tSeconds |-> 0, tEvents |-> {}, sounding |-> {}, trace |-> << >> ]

\* the object is m, and no call is under way
PlayerIs(m) ==
  /\ notes = m.notes
  /\ duration = m.duration
  /\ primeDuration = m.primeDuration
  /\ bpm = m.bpm
  /\ beatsPerBar = m.beatsPerBar
  /\ rollTime = m.rollTime
  /\ btnDisabled = m.btnDisabled
  /\ isPlaying = m.isPlaying
  /\ isPaused = m.isPaused
  /\ pausedTime = m.pausedTime
  /\ animId = m.animId
  /\ frames = m.frames
  /\ scheduledIds = m.scheduledIds
  /\ tState = m.tState
  /\ tSeconds = m.tSeconds
  /\ tEvents = m.tEvents
  /\ sounding = m.sounding
  /\ pendingPlay = << >>
  /\ pendingLoad = << >>
  /\ lastOp = "init"
  /\ call = NoCall
  /\ trace = << >>
  /\ pre = St

Init ==
  /\ PlayerIs(Constructed)
  /\ currentTrackId = 0
  /\ HookInit
  /\ RollInit
  /\ ExtractInit
  /\ TriggerInit

\* play() is called: it returns at once without notes, else waits
PlayCall ==
  /\ Len(pendingPlay) < MaxPendingPlay
  /\ IF PlayerPlayReturnsEarly(St)
     THEN /\ Becomes("playEmpty", NoCall, St)
          /\ UNCHANGED pendingPlay
     ELSE \* remembered about the call: whether it is the first thing after
          \* a seek(t) of a player that was not playing, and that t
          /\ Becomes("playCall",
                     IF lastOp = "seek" /\ ~isPlaying
                     THEN [t |-> call.t, ctx |-> "afterSeek"] ELSE NoCall,
                     St)
          \* remembered with the call: whether the player was playing, or
          \* whether the call is the first thing after a pause() that paused
          /\ pendingPlay' = Append(pendingPlay,
               IF isPlaying THEN "whilePlaying"
               ELSE IF lastOp = "pause" /\ pre.isPlaying THEN "afterPause"
               ELSE "other")
  /\ UNCHANGED << pendingLoad, currentTrackId >>

\* Tone.start() and Tone.loaded() have resolved for the oldest play()
PlayResume ==
  /\ pendingPlay # << >>
  /\ Becomes("play",
             \* "afterSeek" and "afterPause" only when nothing ran between
             \* the call and here
             IF lastOp = "playCall" /\ Len(pendingPlay) = 1
                /\ call.ctx = "afterSeek"
             THEN call
             ELSE [t |-> 0,
                   ctx |-> IF Head(pendingPlay) = "afterPause"
                              /\ ~(lastOp = "playCall" /\ Len(pendingPlay) = 1)
                           THEN "other" ELSE Head(pendingPlay)],
             PlayerPlayBody(St))
  /\ pendingPlay' = Tail(pendingPlay)
  /\ UNCHANGED << pendingLoad, currentTrackId >>

Pause ==
  /\ Becomes("pause", NoCall, PlayerPause(St))
  /\ UNCHANGED << pendingPlay, pendingLoad, currentTrackId >>

Stop ==
  /\ Becomes("stop", NoCall, PlayerStop(St))
  /\ UNCHANGED << pendingPlay, pendingLoad, currentTrackId >>

Seek ==
  \E t \in SeekTimes :
    /\ Becomes("seek", [NoCall EXCEPT !.t = t], PlayerSeek(St, t))
    /\ UNCHANGED << pendingPlay, pendingLoad, currentTrackId >>

\* the browser runs the requested frame callback
Tick ==
  \E f \in frames :
    /\ Becomes("tick", NoCall, PlayerTick([St EXCEPT !.frames = @ \ {f}]))
    /\ UNCHANGED << pendingPlay, pendingLoad, currentTrackId >>

\* the audio clock advances while the transport is started
Advance ==
  /\ tState = "started"
  /\ tSeconds < duration + MaxOver
  /\ Becomes("advance", NoCall, TransportAdvance(St))
  /\ UNCHANGED << pendingPlay, pendingLoad, currentTrackId >>

\* selectTrack(s) is called: it records the track and runs up to the await
\* in loadTrack
SelectTrackCall(s) ==
  /\ Becomes("loadCall", NoCall, SelectTrackStart(St))
  /\ currentTrackId' = s
  /\ pendingLoad' = Append(pendingLoad, s)
  /\ UNCHANGED pendingPlay

LoadCall ==
  \E s \in Sessions :
    /\ Len(pendingLoad) < MaxPendingLoad
    /\ SelectTrackCall(s)

\* the fetch of one pending loadTrack resolves: loadTrack installs the
\* session and selectTrack goes on to setNotes and to its call of play(),
\* which waits at its awaits (every file of the model has notes)
LoadResolve ==
  \E k \in 1 .. Len(pendingLoad) :
    /\ Len(pendingPlay) < MaxPendingPlay
    /\ Becomes("loadInstall", NoCall, SelectTrackLoaded(St, pendingLoad[k]))
    /\ pendingLoad' = SubSeq(pendingLoad, 1, k - 1)
                        \o SubSeq(pendingLoad, k + 1, Len(pendingLoad))
    /\ pendingPlay' = Append(pendingPlay,
                             IF isPlaying THEN "whilePlaying" ELSE "other")
    /\ UNCHANGED currentTrackId

\* the fetch of one pending loadTrack rejects
LoadReject ==
  \E k \in 1 .. Len(pendingLoad) :
    /\ Becomes("loadFail", NoCall, SelectTrackFailed(St))
    /\ pendingLoad' = SubSeq(pendingLoad, 1, k - 1)
                        \o SubSeq(pendingLoad, k + 1, Len(pendingLoad))
    /\ UNCHANGED << pendingPlay, currentTrackId >>

Next ==
  \/ PlayCall
  \/ PlayResume
  \/ Pause
  \/ Stop
  \/ Seek
  \/ Tick
  \/ Advance
  \/ LoadCall
  \/ LoadResolve
  \/ LoadReject

Spec == Init /\ [][Next]_vars

(* ---------------- the piano roll's state machine ---------------- *)

\* init() wires pianoRoll.onSeek to player.seek
Wire ==
  /\ ~roll.onSeek
  /\ RollBecomes("wire", 0, [roll EXCEPT !.onSeek = TRUE], << >>)

\* the window is resized
Resize ==
  \E w \in RollWidths :
    /\ w # roll.displayWidth
    /\ RollBecomes("resize", w, RollResize(roll, w), << >>)

\* selectTrack hands a piece to the roll
SetNotes ==
  \E d \in RollDurations :
    /\ roll.onSeek
    /\ RollBecomes("setNotes", d, RollLayoutNotes(roll, d), << >>)

\* the player reports a time
MoveCursor ==
  \E t \in RollCursorTimes \cup {roll.duration} :
    /\ roll.onSeek
    /\ t <= roll.duration
    /\ t # roll.currentTime
    /\ RollBecomes("updateCursor", t, RollLayoutCursor(roll, t), << >>)

\* the user clicks on the canvas
Click ==
  \E x \in RollClickXs :
    /\ x <= roll.displayWidth
    /\ RollBecomes("click", x, roll, ClickForwards(roll, x))

NextRoll ==
  \/ Wire
  \/ Resize
  \/ SetNotes
  \/ MoveCursor
  \/ Click

SpecRoll == Init /\ [][NextRoll]_vars

(* ---------------- overlapping selections ---------------- *)

\* the user selects a track, a further one while earlier fetches are pending
SelectTrack ==
  \E s \in Sessions :
    /\ Len(pendingLoad) < MaxOverlap
    /\ SelectTrackCall(s)

\* tracks are selected, their fetches resolve in any order and the plays
\* that follow them run; every fetch succeeds
NextLoads ==
  \/ SelectTrack
  \/ LoadResolve
  \/ PlayResume

SpecLoads == Init /\ [][NextLoads]_vars

(* ---------------- _extractNotes applied to decoded files ---------------- *)

\* loadTrack hands a decoded file and its primeDuration to _extractNotes;
\* the function keeps nothing from one call to the next, so a behaviour
\* follows one call
Extract ==
  \E file \in MidiFiles, primeDur \in 0 .. (MaxOnset + 1) :
    /\ midi = << >>
    /\ midi' = file
    /\ midiPrime' = primeDur
    /\ extracted' = ExtractNotes(file, primeDur)
    /\ UNCHANGED << playerVars, rollVars, triggerVars, hookVars >>

NextExtract == Extract

SpecExtract == Init /\ [][NextExtract]_vars

(* ---------------- the trigger callbacks of a started player ---------------- *)

\* session s has been selected and loaded, the player sought to t and play()
\* has run to its end
Started(s, t) ==
  [PlayerPlayBody(PlayerSeek(SelectTrackLoaded(SelectTrackStart(Constructed),
                                               s), t))
     EXCEPT !.trace = << >>]

\* a player started at an audio time a
InitTrigger ==
  \E s \in TriggerSessions, t \in TriggerFromTimes, a \in AudioStarts :
    /\ PlayerIs(Started(s, t))
    /\ currentTrackId = s
    /\ HookInit
    /\ RollInit
    /\ ExtractInit
    /\ samplerCalls = {}
    /\ audioStart = a
    /\ startOffset = t
    /\ escaped = FALSE

\* the audio clock advances: the transport runs the callbacks that are due
Dispatch ==
  \E j \in Jitters, failing \in SUBSET {e \in tEvents : e.time = tSeconds} :
    /\ tState = "started"
    /\ tSeconds < duration + MaxOver
    /\ LET r == TransportDispatch(St, audioStart - startOffset, j, failing)
       IN /\ BecomesPlayer("dispatch", [NoCall EXCEPT !.t = j], r.m)
          /\ samplerCalls' = samplerCalls \cup r.calls
          /\ escaped' = (escaped \/ \E c \in r.calls : c.escapes)
    /\ UNCHANGED << pendingPlay, pendingLoad, currentTrackId, audioStart,
                    startOffset,
                    rollVars, extractVars, hookVars >>

NextTrigger ==
  \/ Dispatch
  \/ Tick

SpecTrigger == InitTrigger /\ [][NextTrigger]_vars

(* ---------------- the callbacks of the useMidiPlayer hook ---------------- *)

\* every callback runs at one reading of the audio clock
HookLoad ==
  \E d \in HookDurations :
    /\ HookBecomes("loadFile", d, HookLoadFile(hook, d))
    /\ UNCHANGED hookNow

\* play() is called: it returns at once or waits for Tone.start()
HookPlayCall ==
  /\ ~hook.playPending
  /\ HookBecomes("playCall", 0,
                 IF HookPlayReturnsEarly(hook) THEN hook
                 ELSE [hook EXCEPT !.playPending = TRUE])
  /\ UNCHANGED hookNow

\* Tone.start() has resolved for the pending play()
HookPlayResume ==
  /\ hook.playPending
  /\ HookBecomes("play", 0, HookPlayBody(hook, hookNow))
  /\ UNCHANGED hookNow

HookPauseCall ==
  /\ HookBecomes("pause", 0, HookPause(hook))
  /\ UNCHANGED hookNow

HookStopCall ==
  /\ HookBecomes("stop", 0, HookStop(hook))
  /\ UNCHANGED hookNow

HookSeekCall ==
  \E t \in HookSeekTimes :
    /\ HookBecomes("seek", t, HookSeek(hook, hookNow, t))
    /\ UNCHANGED hookNow

\* the audio clock advances
HookAdvance ==
  /\ hookNow < MaxNow
  /\ hookNow' = hookNow + 1
  /\ UNCHANGED << hook, hookOp, hookArg, hookAt, hookPre,
                  playerVars, rollVars, extractVars, triggerVars >>

NextHook ==
  \/ HookLoad
  \/ HookPlayCall
  \/ HookPlayResume
  \/ HookPauseCall
  \/ HookStopCall
  \/ HookSeekCall
  \/ HookAdvance

SpecHook == Init /\ [][NextHook]_vars

(* ---------------- notions the properties share ---------------- *)

\* the state of the playback state machine
PlayState(m) ==
  IF m.isPlaying THEN "playing" ELSE IF m.isPaused THEN "paused" ELSE "stopped"

\* t clamped to [0, d]
Clamp(t, d) == IF t < 0 THEN 0 ELSE IF t > d THEN d ELSE t

\* how many times the last handler made the call or notification (name, arg)
Count(name, arg) ==
  Cardinality({k \in 1 .. Len(trace) : trace[k] = Ev(name, arg)})

\* how many times it made the call name, whatever the argument
CountAny(name) ==
  Cardinality({k \in 1 .. Len(trace) : trace[k].ev = name})

\* the notes that have a trigger registered on the transport
RegisteredNotes == {e.note : e \in tEvents}

\* the handles in scheduledIds are exactly the events on the transport
HandlesMatchEvents ==
  {scheduledIds[k] : k \in 1 .. Len(scheduledIds)} = {e.id : e \in tEvents}

(* ---------------- C1 ---------------- *)

\* C1: after stop(), whether it ran on its own, inside loadTrack or inside
\* the frame callback, getCurrentTime() is 0, the player is stopped and no
\* trigger event is registered.
C1_StopResets ==
  CountAny("stop") > 0 =>
    /\ GetCurrentTime(St) = 0
    /\ ~isPlaying /\ ~isPaused
    /\ scheduledIds = << >>
    /\ tEvents = {}

C1_Witness ==
  /\ lastOp = "stop"
  /\ pre.isPlaying
  /\ pre.tSeconds > 0
  /\ pre.scheduledIds # << >>

(* ---------------- C2 ---------------- *)

\* C2: seek(t) while not playing, then getCurrentTime(), gives t clamped to
\* [0, duration], for t below 0 and above duration too.
C2_SeekThenCurrentTime ==
  (lastOp = "seek" /\ ~pre.isPlaying) =>
    GetCurrentTime(St) = Clamp(call.t, pre.duration)

C2_Witness ==
  /\ lastOp = "seek"
  /\ ~pre.isPlaying
  /\ pre.duration > 0
  /\ call.t > pre.duration
  /\ pre.pausedTime # pre.duration

(* ---------------- C3 ---------------- *)

\* C3: pause() at elapsed time e followed directly by play() restarts the
\* transport at position e with the triggers scheduled from e: the elapsed
\* time goes neither back to 0 nor forward.
\* (pre is the player as pause() and the call of play() left it: the paused
\* transport still stands at e.)
C3_ResumeFromPause ==
  (lastOp = "play" /\ call.ctx = "afterPause") =>
    /\ pre.tState = "paused"
    /\ tState = "started"
    /\ tSeconds = pre.tSeconds
    /\ Count("Transport.start", pre.tSeconds) = 1
    /\ Count("scheduleFrom", pre.tSeconds) = 1
    /\ isPlaying

C3_Witness ==
  /\ lastOp = "play"
  /\ call.ctx = "afterPause"
  /\ pre.tSeconds > 0
  /\ tSeconds = pre.tSeconds

(* ---------------- C4 ---------------- *)

\* C4: a frame callback that samples an elapsed time >= duration while
\* playing stops the player: onPlayStateChange(false) once, stop() once, no
\* frame callback requested again.
C4_AutoStop ==
  (lastOp = "tick" /\ pre.isPlaying /\ GetCurrentTime(pre) >= pre.duration) =>
    /\ PlayState(St) = "stopped"
    /\ Count("onPlayStateChange", 0) = 1
    /\ Count("onPlayStateChange", 1) = 0
    /\ CountAny("stop") = 1
    /\ CountAny("requestAnimationFrame") = 0
    /\ frames = {}
    /\ animId = 0

C4_Witness ==
  /\ lastOp = "tick"
  /\ pre.isPlaying
  /\ pre.duration = 3
  /\ pre.tSeconds >= pre.duration
  /\ PlayState(St) = "stopped"

(* ---------------- C5 ---------------- *)

\* the scenario of C5: notes A = (0, 1 s) and B = (0.5 s, 1 s), duration
\* 1.5 s, and seek(0.5 s) has just run on the playing player
C5_Scenario ==
  /\ lastOp = "seek"
  /\ call.t = 1
  /\ pre.isPlaying
  /\ pre.notes = SessionNotes(1)
  /\ pre.duration = 3

C6_PlayWhilePlayingNoOp ==
  (lastOp = "play" /\ call.ctx = "whilePlaying" /\ pre.isPlaying) =>
    /\ tSeconds = pre.tSeconds
    /\ tEvents = pre.tEvents
    /\ scheduledIds = pre.scheduledIds
    /\ frames = pre.frames
    /\ animId = pre.animId
    /\ CountAny("onPlayStateChange") = 0

(* ---------------- C7 ---------------- *)

LegalTransitions ==
  { << "stopped", "playing" >>, << "playing", "paused" >>,
    << "paused", "playing" >>, << "playing", "stopped" >>,
    << "paused", "stopped" >> }

\* C7 as claimed: every change of playback state is one of stopped->playing,
\* playing->paused, paused->playing, playing->stopped, paused->stopped.
C7_OnlyLegalTransitions ==
  PlayState(St) # PlayState(pre) =>
    << PlayState(pre), PlayState(St) >> \in LegalTransitions

\* C7 amended: every change of playback state is one of those five or
\* stopped->paused, and stopped->paused is made by seek only.
C7_LegalOrSeekFromStopped ==
  /\ ~(isPlaying /\ isPaused)
  /\ PlayState(St) # PlayState(pre) =>
       \/ << PlayState(pre), PlayState(St) >> \in LegalTransitions
       \/ /\ << PlayState(pre), PlayState(St) >> = << "stopped", "paused" >>
          /\ lastOp = "seek"

C7_Witness ==
  /\ lastOp = "seek"
  /\ PlayState(pre) = "stopped"
  /\ PlayState(St) = "paused"
  /\ Len(notes) > 0

(* ---------------- C8 ---------------- *)

\* C8 as claimed: every change of playback state emits exactly one
\* onPlayStateChange, with true exactly when the new state is playing.
C8_EveryTransitionNotifies ==
  PlayState(St) # PlayState(pre) =>
    /\ CountAny("onPlayStateChange") = 1
    /\ Count("onPlayStateChange", BoolArg(isPlaying)) = 1

\* C8 amended: every change of playback state except seek's stopped->paused
\* emits exactly one onPlayStateChange, with true exactly when the new state
\* is playing; seek's stopped->paused emits none.
C8_TransitionNotifiesExceptSeek ==
  PlayState(St) # PlayState(pre) =>
    IF << PlayState(pre), PlayState(St) >> = << "stopped", "paused" >>
    THEN CountAny("onPlayStateChange") = 0
    ELSE /\ CountAny("onPlayStateChange") = 1
         /\ Count("onPlayStateChange", BoolArg(isPlaying)) = 1

C8_Witness ==
  /\ PlayState(pre) = "paused"
  /\ PlayState(St) = "playing"
  /\ Count("onPlayStateChange", 1) = 1

(* ---------------- C9 ---------------- *)

\* C9 as claimed: after pause() on a playing player no trigger event is
\* registered any more and releaseAll() was called.
C9_PauseCancelsTriggers ==
  (lastOp = "pause" /\ pre.isPlaying) =>
    /\ scheduledIds = << >>
    /\ tEvents = {}
    /\ CountAny("releaseAll") = 1

\* C9 amended: after pause() on a playing player the transport is paused at
\* the recorded position, so that no registered trigger fires, releaseAll()
\* was called and nothing is sounding; the handles stay registered as they
\* were (the next play, seek or stop revokes them).
C9_PauseFreezesTriggers ==
  (lastOp = "pause" /\ pre.isPlaying) =>
    /\ tState = "paused"
    /\ tSeconds = pre.tSeconds
    /\ pausedTime = pre.tSeconds
    /\ scheduledIds = pre.scheduledIds
    /\ tEvents = pre.tEvents
    /\ CountAny("releaseAll") = 1
    /\ sounding = {}
    /\ frames = {}

C9_Witness ==
  /\ lastOp = "pause"
  /\ pre.isPlaying
  /\ pre.sounding # {}
  /\ tEvents # {}
  /\ \E e \in tEvents : e.time >= tSeconds

(* ---------------- C10 ---------------- *)

\* C10: when loadTrack installs the new notes and duration the player is
\* not playing and no trigger event (all of them were scheduled from the
\* previous notes) is registered.
C10_LoadInstallsOnTornDownPlayer ==
  lastOp = "loadInstall" =>
    /\ ~isPlaying
    /\ tEvents = {}
    /\ scheduledIds = << >>

(* ---------------- C11 ---------------- *)

\* the session data loadTrack installs
SessionData(m) ==
  << m.notes, m.duration, m.primeDuration, m.bpm, m.beatsPerBar >>

\* C11: a loadTrack that fails shows the consumer onLoadStart (when it is
\* called) and then onLoadEnd (when its fetch rejects) once each, rejects,
\* and leaves notes, duration, primeDuration, bpm and beatsPerBar as they
\* were; nothing but a successful load changes them in between.
C11_FailedLoadKeepsSession ==
  /\ lastOp = "loadCall" =>
       /\ CountAny("onLoadStart") = 1
       /\ CountAny("onLoadEnd") = 0
  /\ lastOp = "loadFail" =>
       /\ CountAny("onLoadStart") = 0
       /\ CountAny("onLoadEnd") = 1
       /\ CountAny("throw") = 1
  /\ lastOp # "loadInstall" => SessionData(St) = SessionData(pre)

C11_Witness ==
  /\ lastOp = "loadFail"
  /\ Len(notes) > 0
  /\ duration > 0

(* ---------------- C12 ---------------- *)

\* C12: after a load failure in selectTrack the play and stop buttons are
\* disabled.
C12_FailedLoadDisablesButtons ==
  lastOp = "loadFail" => btnDisabled

(* ---------------- C13 ---------------- *)

\* C13 as claimed: handling a seek calls updateCursor with the clamped time,
\* whatever the playback state.
C13_SeekUpdatesCursor ==
  lastOp = "seek" =>
    /\ Count("updateCursor", Clamp(call.t, pre.duration)) >= 1
    /\ rollTime = Clamp(call.t, pre.duration)

\* C13 amended: handling a seek while not playing calls updateCursor once
\* with the clamped time; a seek while playing calls no updateCursor, it
\* leaves a frame callback requested, and that callback calls updateCursor
\* with the time it samples.
C13_SeekUpdatesCursorUnlessPlaying ==
  /\ (lastOp = "seek" /\ ~pre.isPlaying) =>
       /\ Count("updateCursor", Clamp(call.t, pre.duration)) = 1
       /\ CountAny("updateCursor") = 1
       /\ rollTime = Clamp(call.t, pre.duration)
  /\ (lastOp = "seek" /\ pre.isPlaying) =>
       /\ CountAny("updateCursor") = 0
       /\ rollTime = pre.rollTime
       /\ animId \in frames
  /\ (lastOp = "tick" /\ pre.isPlaying) =>
       /\ Count("updateCursor", GetCurrentTime(pre)) >= 1
       /\ trace[2] = Ev("updateCursor", GetCurrentTime(pre))

C13_Witness ==
  /\ lastOp = "seek"
  /\ pre.isPlaying
  /\ rollTime # Clamp(call.t, pre.duration)
  /\ tSeconds = Clamp(call.t, pre.duration)
  /\ frames # {}

(* ---------------- C14 ---------------- *)

\* the triggers _scheduleFrom(t) registers for the notes ns, handles aside
ExpectedEvents(ns, t) ==
  { [time |-> ns[k].time, note |-> ns[k].idx, session |-> ns[k].session,
     dur |-> Min(ns[k].duration, TriggerCap)] :
      k \in {j \in 1 .. Len(ns) : ns[j].time + ns[j].duration > t} }

\* the events of a transport, handles aside
SansId(evs) ==
  { [time |-> e.time, note |-> e.note, session |-> e.session, dur |-> e.dur] :
      e \in evs }

\* C14: seek(t) while playing leaves the player playing with the ticker
\* running, the transport started at t clamped to [0, duration] and the
\* triggers registered that _scheduleFrom computes from the clamped t.
C14_SeekWhilePlaying ==
  (lastOp = "seek" /\ pre.isPlaying) =>
    /\ isPlaying /\ ~isPaused
    /\ tState = "started"
    /\ tSeconds = Clamp(call.t, pre.duration)
    /\ frames = {animId}
    /\ animId # 0
    /\ SansId(tEvents) = ExpectedEvents(pre.notes, Clamp(call.t, pre.duration))
    /\ Cardinality(tEvents) = Len(scheduledIds)
    /\ HandlesMatchEvents

C14_Witness ==
  /\ lastOp = "seek"
  /\ pre.isPlaying
  /\ call.t = 2
  /\ tSeconds = 2
  /\ RegisteredNotes = {2}
  /\ Len(notes) = 2

(* ---------------- C15 ---------------- *)

\* C15 as claimed: seek(t) while not playing leaves the playback state and
\* the registered trigger events as they were.
C15_SeekNotPlayingKeepsStateAndTriggers ==
  (lastOp = "seek" /\ ~pre.isPlaying) =>
    /\ PlayState(St) = PlayState(pre)
    /\ tEvents = pre.tEvents

\* C15 amended: seek(t) while not playing records the clamped t as the
\* elapsed time of the next start and leaves the player not playing with
\* the ticker off and no play-state notification, but it marks the player
\* paused, stops the transport at 0 and registers anew the triggers computed
\* from the clamped t.
C15_SeekNotPlayingRecordsAndReschedules ==
  (lastOp = "seek" /\ ~pre.isPlaying) =>
    /\ pausedTime = Clamp(call.t, pre.duration)
    /\ ~isPlaying
    /\ isPaused
    /\ frames = {} /\ animId = pre.animId
    /\ CountAny("onPlayStateChange") = 0
    /\ tState = "stopped" /\ tSeconds = 0
    /\ SansId(tEvents) = ExpectedEvents(pre.notes, Clamp(call.t, pre.duration))
    /\ HandlesMatchEvents

C15_Witness ==
  /\ lastOp = "seek"
  /\ PlayState(pre) = "stopped"
  /\ pre.tEvents = {}
  /\ Cardinality(tEvents) = 2
  /\ pausedTime = 1

(* ---------------- C16 ---------------- *)

\* the object m, the calls it made aside
Object(m) == [m EXCEPT !.trace = << >>]

\* C16: play() with no notes loaded returns at once: the flags, the recorded
\* elapsed time, the registered triggers and the ticker stay as they were,
\* nothing is notified, and no such call goes on to its awaits.
C16_PlayWithoutNotesNoOp ==
  /\ lastOp = "playEmpty" =>
       /\ Len(pre.notes) = 0
       /\ Object(St) = Object(pre)
       /\ trace = << >>
  /\ lastOp = "playCall" => Len(pre.notes) > 0

C16_Witness ==
  /\ lastOp = "playEmpty"
  /\ Len(notes) = 0
  /\ isPaused
  /\ pendingPlay = << >>

(* ---------------- C17 ---------------- *)

\* C17: seek(t) with no notes loaded leaves isPlaying, isPaused, the
\* recorded elapsed time and the registered triggers as they were.
C17_SeekWithoutNotesNoOp ==
  (lastOp = "seek" /\ Len(pre.notes) = 0) =>
    /\ isPlaying = pre.isPlaying
    /\ isPaused = pre.isPaused
    /\ pausedTime = pre.pausedTime
    /\ tEvents = pre.tEvents
    /\ scheduledIds = pre.scheduledIds

(* ---------------- C18 ---------------- *)

\* the triggers and handles of m are those a call of _scheduleFrom(t) leaves
ScheduledFrom(m, t) ==
  /\ SansId(m.tEvents) = ExpectedEvents(m.notes, t)
  /\ Cardinality(m.tEvents) = Cardinality(ExpectedEvents(m.notes, t))
  /\ Len(m.scheduledIds) = Cardinality(m.tEvents)
  /\ {m.scheduledIds[k] : k \in 1 .. Len(m.scheduledIds)} =
       {e.id : e \in m.tEvents}

\* the time play() starts from
StartFrom(m) == IF m.isPaused THEN m.pausedTime ELSE 0

\* C18: a handler that calls _scheduleFrom(t) on a player whose triggers are
\* those an earlier _scheduleFrom(t) left (a second seek to t, or play()
\* after a seek to t) leaves the same triggers and handles: one trigger for
\* each note still to end at t, none twice.
C18_ScheduleFromIdempotent ==
  /\ (lastOp = "seek" /\ ScheduledFrom(pre, Clamp(call.t, pre.duration))) =>
       /\ tEvents = pre.tEvents
       /\ scheduledIds = pre.scheduledIds
       /\ ScheduledFrom(St, Clamp(call.t, pre.duration))
  /\ (lastOp = "play" /\ ScheduledFrom(pre, StartFrom(pre))) =>
       /\ tEvents = pre.tEvents
       /\ scheduledIds = pre.scheduledIds
       /\ ScheduledFrom(St, StartFrom(pre))

\* a second seek to the same time on a paused player has just run
C18_Witness ==
  /\ lastOp = "seek"
  /\ ~pre.isPlaying
  /\ pre.isPaused
  /\ pre.tState = "stopped"
  /\ pre.pausedTime = pausedTime
  /\ ScheduledFrom(pre, pausedTime)
  /\ pre.tEvents = tEvents
  /\ Cardinality(tEvents) = 2

(* ---------------- C19 ---------------- *)

\* C19 as claimed: while playing getCurrentTime() is the transport position;
\* otherwise it is the value the last pause, stop or seek recorded.
C19_LiveWhilePlaying ==
  /\ isPlaying => GetCurrentTime(St) = tSeconds
  /\ ~isPlaying => GetCurrentTime(St) = pausedTime

\* C19 amended: while playing getCurrentTime() is the transport position
\* capped at duration; while paused or stopped it is the value the last
\* pause (the transport position), stop (0) or seek (the clamped target)
\* recorded, which no other step changes, and the transport does not run.
C19_LiveCappedWhilePlayingFrozenOtherwise ==
  /\ isPlaying =>
       /\ tState = "started"
       /\ GetCurrentTime(St) = (IF tSeconds > duration THEN duration
                                ELSE tSeconds)
  /\ ~isPlaying =>
       /\ tState # "started"
       /\ lastOp # "advance"
       /\ IF lastOp = "pause" /\ pre.isPlaying
            THEN GetCurrentTime(St) = pre.tSeconds
          ELSE IF CountAny("stop") > 0
            THEN GetCurrentTime(St) = 0
          ELSE IF lastOp = "seek"
            THEN GetCurrentTime(St) = Clamp(call.t, pre.duration)
          ELSE GetCurrentTime(St) = GetCurrentTime(pre)

C19_Witness ==
  /\ isPlaying
  /\ lastOp = "advance"
  /\ tSeconds > duration
  /\ GetCurrentTime(St) = duration

(* ---------------- C20 ---------------- *)

\* C20: a click x pixels from the canvas's left edge, in the note area of a
\* roll with a duration, passes exactly one time to onSeek:
\* ((x - keyboardWidth) + scrollX) / pxPerSec, brought into [0, duration].
\* Unless that brought it in, the cursor drawn at the time passed stands at
\* x.  A click in the key strip (x < keyboardWidth), on a roll without a
\* duration or before onSeek is wired passes nothing.  The handler leaves
\* the layout and the player as they were.
C20_ClickMapsToTime ==
  rollOp = "click" =>
    LET x == rollArg
        raw == FDiv(FAdd(FInt(x - keyboardWidth), rollPre.scrollX),
                    rollPre.pxPerSec)
        last == FInt(rollPre.duration)
    IN /\ roll = rollPre
       /\ lastOp = "init" /\ St = pre
       /\ IF rollPre.duration = 0 \/ ~rollPre.onSeek \/ x < keyboardWidth
          THEN forwarded = << >>
          ELSE /\ Len(forwarded) = 1
               /\ FLe(FInt(0), forwarded[1]) /\ FLe(forwarded[1], last)
               /\ FLt(raw, FInt(0)) => forwarded[1] = FInt(0)
               /\ FLt(last, raw) => forwarded[1] = last
               /\ (FLe(FInt(0), raw) /\ FLe(raw, last)) =>
                    /\ forwarded[1] = raw
                    /\ CursorX(roll, forwarded[1]) = FInt(x)

C20_Witness ==
  /\ rollOp = "click"
  /\ rollArg > keyboardWidth
  /\ FLt(FInt(0), roll.scrollX)
  /\ Len(forwarded) = 1
  /\ FLt(FInt(0), forwarded[1])
  /\ FLt(forwarded[1], FInt(roll.duration))
  /\ forwarded[1].d > 1

(* ---------------- C21 ---------------- *)

\* the place of the first call named name in the handler's trace, 0 if none
Pos(name) ==
  IF CountAny(name) = 0 THEN 0
  ELSE CHOOSE i \in 1 .. Len(trace) :
         /\ trace[i].ev = name
         /\ \A j \in 1 .. (i - 1) : trace[j].ev # name

\* the place of the last call named name in the handler's trace, 0 if none
LastPos(name) ==
  IF CountAny(name) = 0 THEN 0
  ELSE CHOOSE i \in 1 .. Len(trace) :
         /\ trace[i].ev = name
         /\ \A j \in (i + 1) .. Len(trace) : trace[j].ev # name

\* the time the handler that ran last passed to _scheduleFrom
FromTime ==
  IF lastOp = "seek" THEN Clamp(call.t, pre.duration) ELSE StartFrom(pre)

\* C21: every _scheduleFrom is directly preceded by the revocation of all
\* handles and Transport.cancel(), so at any time the triggers registered
\* are those of one _scheduleFrom call, never a mixture of two: they belong
\* to one session, no note has two, and scheduledIds lists exactly their
\* handles.
C21_CancelBeforeReschedule ==
  /\ \A i \in 1 .. Len(trace) :
       trace[i].ev = "scheduleFrom" =>
         /\ i > 1
         /\ trace[i - 1].ev = "Transport.cancel"
  /\ \A e1 \in tEvents, e2 \in tEvents :
       /\ e1.session = e2.session
       /\ e1.note = e2.note => e1 = e2
  /\ Len(scheduledIds) = Cardinality(tEvents)
  /\ HandlesMatchEvents
  /\ lastOp \in {"seek", "play"} => ScheduledFrom(St, FromTime)

C21_Witness ==
  /\ lastOp = "seek"
  /\ Cardinality(pre.tEvents) = 2
  /\ Cardinality(tEvents) = 1
  /\ pre.isPlaying

(* ---------------- C22 ---------------- *)

\* C22 as claimed: stop, seek, pause and loadTrack call sampler.releaseAll()
\* after the pending triggers have been cancelled.
C22_ReleaseAfterCancel ==
  (lastOp \in {"stop", "seek", "pause", "loadCall", "tick"}
     /\ CountAny("Transport.cancel") > 0) =>
    LastPos("releaseAll") > LastPos("Transport.cancel")

\* C22 amended: stop (also inside loadTrack and the frame callback) halts the
\* transport, cancels the pending triggers and then calls releaseAll; seek
\* halts the transport, calls releaseAll and only then cancels the pending
\* triggers; pause halts the transport and calls releaseAll without
\* cancelling any trigger.  Each calls releaseAll once, after the transport
\* is halted, and leaves no voice sounding.
C22_ReleaseAfterTransportHalt ==
  /\ CountAny("stop") > 0 =>
       /\ 0 < Pos("Transport.stop")
       /\ Pos("Transport.stop") < Pos("Transport.cancel")
       /\ Pos("Transport.cancel") < Pos("releaseAll")
       /\ CountAny("releaseAll") = 1
       /\ sounding = {}
  /\ lastOp = "seek" =>
       /\ 0 < Pos("Transport.stop")
       /\ Pos("Transport.stop") < Pos("releaseAll")
       /\ Pos("releaseAll") < Pos("Transport.cancel")
       /\ CountAny("releaseAll") = 1
       /\ sounding = {}
  /\ (lastOp = "pause" /\ pre.isPlaying) =>
       /\ 0 < Pos("Transport.pause")
       /\ Pos("Transport.pause") < Pos("releaseAll")
       /\ CountAny("Transport.cancel") = 0
       /\ CountAny("releaseAll") = 1
       /\ sounding = {}

C22_Witness ==
  /\ lastOp = "seek"
  /\ pre.sounding # {}
  /\ sounding = {}
  /\ Pos("releaseAll") = 2
  /\ Pos("Transport.cancel") = 3

(* ---------------- C23 ---------------- *)

\* C23: at most one frame callback is pending, and it is the one _animId
\* names; one is pending only while the player is playing; pause() and
\* stop() leave none pending.
C23_OneFrameOnlyWhilePlaying ==
  /\ Cardinality(frames) <= 1
  /\ frames # {} => (isPlaying /\ frames = {animId})
  /\ (lastOp = "pause" \/ CountAny("stop") > 0) =>
       /\ frames = {}
       /\ animId = 0
  /\ (lastOp = "pause" /\ pre.isPlaying) =>
       /\ CountAny("cancelAnimationFrame") = 1
       /\ animId = 0

\* pause() has just cancelled the pending frame callback
C23_Witness ==
  /\ lastOp = "pause"
  /\ pre.isPlaying
  /\ Cardinality(pre.frames) = 1
  /\ frames = {}

(* ---------------- C24 ---------------- *)

\* C24: after a handler has called _scheduleFrom(fromTime) (seek, or play()
\* past its awaits), each note with time + duration > fromTime has exactly
\* one trigger, each note with time + duration <= fromTime has none, and
\* scheduledIds lists the handles of exactly those triggers, once each.
C24_OneTriggerPerEligibleNote ==
  lastOp \in {"seek", "play"} =>
    /\ \A k \in 1 .. Len(notes) :
         LET mine == {e \in tEvents : e.note = notes[k].idx
                                       /\ e.session = notes[k].session}
         IN IF notes[k].time + notes[k].duration > FromTime
            THEN Cardinality(mine) = 1
            ELSE mine = {}
    /\ \A e \in tEvents :
         \E k \in 1 .. Len(notes) :
           e.note = notes[k].idx /\ e.session = notes[k].session
    /\ Len(scheduledIds) = Cardinality(tEvents)
    /\ \A e \in tEvents :
         Cardinality({k \in 1 .. Len(scheduledIds) : scheduledIds[k] = e.id})
           = 1

\* a seek to the time at which the first note ends has skipped that note
C24_Witness ==
  /\ lastOp = "seek"
  /\ Len(notes) = 2
  /\ FromTime = notes[1].time + notes[1].duration
  /\ RegisteredNotes = {notes[2].idx}

(* ---------------- C25 ---------------- *)

\* C25: for a note that has begun at fromTime (time < fromTime < time +
\* duration) _scheduleFrom registers a trigger at fromTime itself, with the
\* duration time + duration - fromTime.
C25_BegunNoteTruncated ==
  lastOp \in {"seek", "play"} =>
    \A k \in 1 .. Len(notes) :
      (notes[k].time < FromTime
         /\ FromTime < notes[k].time + notes[k].duration) =>
        \E e \in tEvents :
          /\ e.note = notes[k].idx
          /\ e.time = FromTime
          /\ e.dur = notes[k].time + notes[k].duration - FromTime

(* ---------------- C29 ---------------- *)

\* C29: the list _extractNotes returns holds every note of every track once,
\* in non-decreasing order of onset, and of two notes with the same onset
\* the one of the earlier track (in one track, the one listed earlier) comes
\* first.
C29_SortedStable ==
  midi # << >> =>
  LET n == Len(extracted) IN
    /\ n = Len(midi[1]) + Len(midi[2])
    /\ {extracted[k].ord : k \in 1 .. n} = 1 .. n
    /\ \A k \in 1 .. n :
         LET x == extracted[k]
             inTrack == IF x.trackIdx = 1 THEN x.ord
                        ELSE x.ord - Len(midi[1])
         IN /\ x.trackIdx \in {1, 2}
            /\ inTrack \in 1 .. Len(midi[x.trackIdx])
            /\ midi[x.trackIdx][inTrack].time = x.time
            /\ midi[x.trackIdx][inTrack].duration = x.duration
    /\ \A i \in 1 .. n, j \in 1 .. n :
         i < j =>
           /\ extracted[i].time <= extracted[j].time
           /\ extracted[i].time = extracted[j].time =>
                /\ extracted[i].trackIdx <= extracted[j].trackIdx
                /\ extracted[i].ord < extracted[j].ord

\* notes of two tracks tie, and a note of the second track was moved ahead
\* of a note of the first
C29_Witness ==
  /\ Len(extracted) = 4
  /\ \E i \in 1 .. 3 :
       /\ extracted[i].time = extracted[i + 1].time
       /\ extracted[i].trackIdx = 1
       /\ extracted[i + 1].trackIdx = 2
  /\ \E i \in 1 .. 4, j \in 1 .. 4 :
       /\ i < j
       /\ extracted[i].trackIdx = 2
       /\ extracted[j].trackIdx = 1

(* ---------------- C26 ---------------- *)

\* the note of the loaded session a sampler call was made for
NoteOf(c) == CHOOSE n \in {notes[k] : k \in 1 .. Len(notes)} : n.idx = c.note

\* the audio time the transport gives the position p
AudioTimeOf(p) == audioStart + (p - startOffset)

\* C26: every call of the sampler is passed the audio time of the position
\* its trigger was scheduled at, whatever the distance between the
\* callback's run and that time: callbacks run at two different clock
\* readings make the same call.
C26_AudioTimeIndependentOfDispatch ==
  /\ \A c \in samplerCalls : c.at = AudioTimeOf(NoteOf(c).time)
  /\ lastOp = "dispatch" =>
       \A e \in {d \in pre.tEvents : d.time = pre.tSeconds} :
         \A j1 \in Jitters, j2 \in Jitters :
           TriggerCallback(e, AudioTimeOf(e.time),
                           AudioTimeOf(e.time) + j1, FALSE)
             = TriggerCallback(e, AudioTimeOf(e.time),
                               AudioTimeOf(e.time) + j2, FALSE)

\* a callback has run away from its audio time, later than the start
C26_Witness ==
  /\ lastOp = "dispatch"
  /\ call.t # 0
  /\ \E c \in samplerCalls :
       /\ NoteOf(c).time = pre.tSeconds
       /\ c.at > audioStart
       /\ ~c.threw

(* ---------------- C27 ---------------- *)

\* C27: no error leaves a trigger callback.  A step in which the sampler
\* throws leaves the flags, the registered triggers and handles and the
\* pending frame as they were and moves the transport on as any other, and
\* every trigger whose position the transport has passed since it started
\* has run, whichever of the earlier ones threw; a trigger that threw left
\* no voice.
C27_TriggerFailureAbsorbed ==
  /\ ~escaped
  /\ lastOp = "dispatch" =>
       /\ isPlaying = pre.isPlaying /\ isPaused = pre.isPaused
       /\ pausedTime = pre.pausedTime
       /\ tEvents = pre.tEvents
       /\ scheduledIds = pre.scheduledIds
       /\ frames = pre.frames /\ animId = pre.animId
       /\ tState = "started"
       /\ tSeconds = pre.tSeconds + 1
       /\ \A e \in tEvents :
            (startOffset <= e.time /\ e.time < tSeconds) =>
              \E c \in samplerCalls : c.note = e.note /\ c.session = e.session
       /\ \A v \in sounding :
            \E c \in samplerCalls :
              c.note = v.note /\ c.session = v.session /\ ~c.threw

\* a trigger has run and started its voice after an earlier one threw
C27_Witness ==
  /\ lastOp = "dispatch"
  /\ isPlaying
  /\ \E c1 \in samplerCalls, c2 \in samplerCalls :
       /\ c1.threw
       /\ ~c2.threw
       /\ c1.at < c2.at
       /\ \E v \in sounding : v.note = c2.note

(* ---------------- C28 ---------------- *)

\* C28: the duration passed to the sampler is the smaller of the note's
\* duration and the cap, so no voice is started for longer than the cap.
C28_TriggerDurationCapped ==
  /\ \A c \in samplerCalls :
       /\ c.dur = (IF NoteOf(c).duration <= TriggerCap
                   THEN NoteOf(c).duration ELSE TriggerCap)
       /\ c.dur <= TriggerCap
  /\ \A v \in sounding : v.left <= TriggerCap

\* a note longer than the cap has been triggered
C28_Witness ==
  \E c \in samplerCalls :
    /\ NoteOf(c).duration > TriggerCap
    /\ c.dur = TriggerCap
    /\ ~c.threw

(* ---------------- C30 ---------------- *)

\* the width of the note area, and the two densities _computeZoom weighs
ViewW == roll.displayWidth - keyboardWidth
FitAll == Frac(ViewW, roll.duration)
Comfortable == Frac(ViewW, ComfortableSeconds)

\* C30 as claimed: after setNotes and after a resize, pxPerSec is the larger
\* of the fit-all and the comfortable density, and at most 140.
C30_ZoomCapped ==
  (rollOp \in {"setNotes", "resize"} /\ roll.duration > 0 /\ ViewW > 0) =>
    /\ roll.pxPerSec =
         FMin(FMax(FitAll, Comfortable), FInt(MaxComfortablePxPerSec))
    /\ FLe(roll.pxPerSec, FInt(MaxComfortablePxPerSec))

\* C30 amended: after setNotes and after a resize, pxPerSec is the larger of
\* the fit-all density and the comfortable density capped at 140: the cap
\* binds the comfortable density only, so the whole piece is never narrower
\* than the note area, and pxPerSec exceeds 140 exactly when the fit-all
\* density does.  Without a duration or a note area it is 80.
C30_ZoomCapsComfortableOnly ==
  rollOp \in {"setNotes", "resize"} =>
    IF roll.duration <= 0 \/ ViewW <= 0
    THEN roll.pxPerSec = FInt(DefaultPxPerSec)
    ELSE /\ FLe(FitAll, roll.pxPerSec)
         /\ FLe(FInt(ViewW), FMul(FInt(roll.duration), roll.pxPerSec))
         /\ FLt(FInt(MaxComfortablePxPerSec), roll.pxPerSec)
              <=> FLt(FInt(MaxComfortablePxPerSec), FitAll)
         /\ IF FLe(Comfortable, FInt(MaxComfortablePxPerSec))
            THEN roll.pxPerSec = FMax(FitAll, Comfortable)
            ELSE roll.pxPerSec = FMax(FitAll, FInt(MaxComfortablePxPerSec))

\* a short piece on a wide page is drawn at more than 140 pixels a second
C30_Witness ==
  /\ rollOp = "setNotes"
  /\ roll.duration > 0
  /\ FLt(FInt(MaxComfortablePxPerSec), roll.pxPerSec)
  /\ roll.pxPerSec = FitAll

(* ---------------- C31 ---------------- *)

\* the width of the whole piece at the present zoom, and the scroll offset
\* that would put the time t at 30% of the note area
TotalW == FMul(FInt(roll.duration), roll.pxPerSec)
ScrollTarget(t) ==
  FSub(FMul(FInt(t), roll.pxPerSec), FMul(FInt(ViewW), Frac(3, 10)))

\* C31: after updateCursor(time), when the piece is not wider than the note
\* area scrollX is 0; when it is wider, scrollX is time*pxPerSec - 0.3*viewW
\* and the cursor is drawn at 30% of the note area, except that scrollX is 0
\* where that target is negative and totalW - viewW where the target exceeds
\* it.  The zoom and the piece are left alone.
C31_CursorAtThreeTenths ==
  rollOp = "updateCursor" =>
    LET t == rollArg
        target == ScrollTarget(t)
        last == FSub(TotalW, FInt(ViewW))
    IN /\ roll.currentTime = t
       /\ roll.pxPerSec = rollPre.pxPerSec
       /\ roll.duration = rollPre.duration
       /\ roll.displayWidth = rollPre.displayWidth
       /\ IF FLe(TotalW, FInt(ViewW)) THEN roll.scrollX = FInt(0)
          ELSE IF FLt(target, FInt(0)) THEN roll.scrollX = FInt(0)
          ELSE IF FLt(last, target) THEN roll.scrollX = last
          ELSE /\ roll.scrollX = target
               /\ CursorX(roll, FInt(t)) =
                    FAdd(FInt(keyboardWidth), FMul(FInt(ViewW), Frac(3, 10)))

\* the cursor has been moved to the end of a piece wider than the note area:
\* the scroll offset stops at totalW - viewW, short of the target
C31_Witness ==
  /\ rollOp = "updateCursor"
  /\ FLt(FInt(ViewW), TotalW)
  /\ FLt(FSub(TotalW, FInt(ViewW)), ScrollTarget(rollArg))
  /\ roll.scrollX = FSub(TotalW, FInt(ViewW))
  /\ FLt(FInt(0), roll.scrollX)

\* the cursor has been moved inside a piece wider than the note area and
\* stands at 30% of the note area
C31_WitnessInterior ==
  /\ rollOp = "updateCursor"
  /\ FLt(FInt(ViewW), TotalW)
  /\ roll.scrollX = ScrollTarget(rollArg)
  /\ FLt(FInt(0), roll.scrollX)
  /\ FLt(roll.scrollX, FSub(TotalW, FInt(ViewW)))

(* ---------------- C32 ---------------- *)

\* the time window the note area shows
ViewStartTime == FDiv(roll.scrollX, roll.pxPerSec)
ViewEndTime == FDiv(FAdd(roll.scrollX, FInt(ViewW)), roll.pxPerSec)

\* the interval [time, time + duration] of the note and the window have a
\* point in common
Intersects(note) ==
  FLe(FMax(FInt(note.time), ViewStartTime),
      FMin(FInt(note.time + note.duration), ViewEndTime))

\* how many times the last render drew the note
TimesDrawn(note) == Cardinality({i \in 1 .. Len(drawn) : drawn[i] = note})

\* C32: in a render of a roll that has a size and a piece, every note whose
\* interval [time, time + duration] intersects the window
\* [scrollX/pxPerSec, (scrollX + viewW)/pxPerSec] is drawn exactly once and
\* no other note is drawn; a render draws nothing but notes of the piece.
C32_DrawnIffIntersecting ==
  (/\ rollOp \in {"setNotes", "updateCursor", "resize"}
   /\ roll.displayWidth > 0 /\ roll.displayHeight > 0
   /\ roll.duration # 0) =>
    /\ \A k \in 1 .. Len(roll.notes) :
         TimesDrawn(roll.notes[k])
           = (IF Intersects(roll.notes[k]) THEN 1 ELSE 0)
    /\ \A i \in 1 .. Len(drawn) :
         \E k \in 1 .. Len(roll.notes) : drawn[i] = roll.notes[k]

\* a render of a scrolled roll has culled a note to the left of the window
\* and one to its right, and has drawn a note that only touches the
\* window's left edge
C32_Witness ==
  /\ rollOp = "updateCursor"
  /\ FLt(FInt(0), roll.scrollX)
  /\ \E a, b, c \in {roll.notes[k] : k \in 1 .. Len(roll.notes)} :
       /\ FLt(FInt(a.time + a.duration), ViewStartTime) /\ TimesDrawn(a) = 0
       /\ FLt(ViewEndTime, FInt(b.time)) /\ TimesDrawn(b) = 0
       /\ FInt(c.time + c.duration) = ViewStartTime /\ TimesDrawn(c) = 1

(* ---------------- C33 ---------------- *)

\* C33 as claimed: in every reachable state getCurrentTime() lies in
\* [0, duration], a pause() issued after the transport has passed duration
\* and before the next frame's auto-stop included.
C33_CurrentTimeWithinPiece ==
  /\ 0 <= GetCurrentTime(St)
  /\ GetCurrentTime(St) <= duration

\* C33, the case the claim names: pause() of a playing player whose
\* transport has passed duration leaves getCurrentTime() within the piece.
C33_PauseInOverrunWithinPiece ==
  (lastOp = "pause" /\ pre.isPlaying /\ pre.tSeconds > pre.duration) =>
    GetCurrentTime(St) <= duration

(* ---------------- C34 ---------------- *)

\* the awaits of the oldest pending play() resolve next, a stop() or pause()
\* having been the last call made while it waited
ResumesAfterStopOrPause ==
  /\ lastOp = "stop" \/ (lastOp = "pause" /\ pre.isPlaying)
  /\ pendingPlay # << >>
  /\ lastOp' = "play"

\* C34 as claimed: when stop() or pause() is called while a play() waits at
\* its awaits, then once that play() completes the player is not playing, no
\* frame is armed and the play() has not reported onPlayStateChange(true).
C34_LaterStopOrPauseWins ==
  [][ResumesAfterStopOrPause =>
       /\ ~isPlaying'
       /\ animId' = 0
       /\ Ev("onPlayStateChange", 1) \notin {trace'[i] : i \in 1 .. Len(trace')}
    ]_vars

(* ---------------- C35 ---------------- *)

\* C35 as claimed: when selections overlap and every fetch has resolved, the
\* session installed is the one selected last, whatever the order in which
\* the fetches resolved: the loaded notes belong to currentTrackId.
C35_LastSelectedInstalled ==
  (lastOp = "loadInstall" /\ pendingLoad = << >>) =>
    /\ notes = SessionNotes(currentTrackId)
    /\ duration = SessionDuration(currentTrackId)

(* ---------------- C36 ---------------- *)

\* C36: in every reachable state in which the player is stopped (neither
\* playing nor paused) no trigger is registered: scheduledIds is empty and
\* the transport holds no event.
C36_StoppedHoldsNoTriggers ==
  (~isPlaying /\ ~isPaused) =>
    /\ scheduledIds = << >>
    /\ tEvents = {}

\* stop() has stopped a player that held registered triggers
C36_Witness ==
  /\ lastOp = "stop"
  /\ pre.scheduledIds # << >>
  /\ pre.tEvents # {}
  /\ ~isPlaying /\ ~isPaused
  /\ scheduledIds = << >>

(* ---------------- C37 ---------------- *)

\* C37: seek(t) of a player that is stopped or paused, followed by play()
\* with nothing in between, starts playback at t clamped to [0, duration]:
\* the transport is started there with the triggers of the notes still to
\* end at that time, whatever position an earlier pause had recorded.
C37_PlayAfterSeekStartsAtTarget ==
  (lastOp = "play" /\ call.ctx = "afterSeek") =>
    LET t == Clamp(call.t, duration)
    IN /\ pre.isPaused /\ pre.pausedTime = t
       /\ isPlaying /\ ~isPaused
       /\ tState = "started"
       /\ tSeconds = t
       /\ SansId(tEvents) = ExpectedEvents(notes, t)

\* play() after a seek into the piece has started playback at the target,
\* which is neither 0 nor the end
C37_Witness ==
  /\ lastOp = "play" /\ call.ctx = "afterSeek"
  /\ 0 < call.t /\ call.t < duration
  /\ isPlaying
  /\ tSeconds = call.t

\* play() after a seek past the end has started at the end
C37_WitnessPastEnd ==
  /\ lastOp = "play" /\ call.ctx = "afterSeek"
  /\ call.t > duration
  /\ isPlaying
  /\ tSeconds = duration

(* ---------------- C38 ---------------- *)

\* C38 as claimed: whenever the player is not playing (after pause, stop,
\* seek or load) the time the roll's cursor is drawn at, the last value
\* passed through onTimeUpdate/updateCursor, equals getCurrentTime().
C38_CursorShowsCurrentTime ==
  ~isPlaying => rollTime = GetCurrentTime(St)

\* C38, the case of pause(): after a pause() that paused, the cursor is at
\* getCurrentTime().
C38_CursorShowsPausedTime ==
  (lastOp = "pause" /\ pre.isPlaying) => rollTime = GetCurrentTime(St)

\* C38, the case of a load: after loadTrack has installed a piece on a
\* player that is not playing, the cursor is at getCurrentTime().
C38_CursorShowsTimeAfterLoad ==
  (lastOp = "loadInstall" /\ ~isPlaying) => rollTime = GetCurrentTime(St)

(* ---------------- C39 ---------------- *)

\* C39 as claimed: after seek(t) while playing, the elapsed time an update
\* computes (now - startTime + pausedAt) is t clamped to [0, duration] plus
\* the audio-clock time that has passed since the seek.
C39_ElapsedIsTargetPlusTimeSinceSeek ==
  (hookOp = "seek" /\ hookPre.isPlaying) =>
    HookElapsed(hook, hookNow)
      = Clamp(hookArg, hook.duration) + (hookNow - hookAt)

====
